---------------------------- MODULE Spec2Model ----------------------------
(***************************************************************************)
(* A model of the Raspberry Pi Pico signal generator firmware:             *)
(*   src/src/AD9850.hpp            the AD9850 DDS driver                   *)
(*   src/src/command_processor.hpp the serial command processor            *)
(*   src/pico-siggen.cpp           main() and its control loop             *)
(*                                                                         *)
(* Unsigned 32-bit values are kept at their full width.  TLC's integers    *)
(* stop at 2^31 - 1, so a uint32_t is the pair <<hi, lo>> of its 16-bit    *)
(* halves and a uint64_t the 4-tuple of its 16-bit limbs, most significant *)
(* first.                                                                  *)
(***************************************************************************)
EXTENDS Integers, Sequences, FiniteSets, TLC

(***************************************************************************)
(* uint32_t / uint64_t arithmetic on 16-bit limbs                          *)
(***************************************************************************)
B16 == 2 ^ 16

\* The uint32_t with value n, for 0 <= n < 2^31.
U32(n) == <<n \div B16, n % B16>>

U32Lt(a, b) == a[1] < b[1] \/ (a[1] = b[1] /\ a[2] < b[2])

\* Bit k (0 = least significant) of the uint32_t u: (u & (1 << k)) != 0.
U32Bit(u, k) ==
    IF k < 16 THEN (u[2] \div (2 ^ k)) % 2 ELSE (u[1] \div (2 ^ (k - 16))) % 2

\* static_cast<uint64_t>(u) << 32
U64Shl32(u) == <<u[1], u[2], 0, 0>>

\* static_cast<uint32_t>(q) of a uint64_t: the low 32 bits.
U64ToU32(q) == <<q[3], q[4]>>

\* Byte k (0 = least significant, up to 7) of a uint64_t.
U64Digit(n, k) == (n[4 - (k \div 2)] \div (256 ^ (k % 2))) % 256

\* The uint64_t q whose byte k is 0, with that byte set to t.
U64SetDigit(q, k, t) == [q EXCEPT ![4 - (k \div 2)] = @ + t * (256 ^ (k % 2))]

\* t * d for a digit t and a uint32_t d, as <<high part, low 16 bits>>.
U32Times(d, t) == <<t * d[1] + (t * d[2]) \div B16, (t * d[2]) % B16>>

\* a <= b on <<high part, low 16 bits>>.
U32Le(a, b) == a[1] < b[1] \/ (a[1] = b[1] /\ a[2] <= b[2])

\* a - b on <<high part, low 16 bits>>, for b <= a.
U32Minus(a, b) ==
    IF a[2] >= b[2] THEN <<a[1] - b[1], a[2] - b[2]>>
    ELSE <<a[1] - b[1] - 1, a[2] + B16 - b[2]>>

\* The largest x in lo..(lo + 15) with x * d <= cur, where lo * d <= cur.
U32DigitFrom(d, cur, lo) ==
    CHOOSE x \in lo..(lo + 15) :
        /\ U32Le(U32Times(d, x), cur)
        /\ x < lo + 15 => ~U32Le(U32Times(d, x + 1), cur)

\* cur / d for cur < 256 * d: the largest x in 0..255 with x * d <= cur,
\* found in steps of 16 first.
U32Digit(d, cur) ==
    CHOOSE x \in { U32DigitFrom(d, cur, 16 * a) :
                      a \in { a \in 0..15 :
                                /\ U32Le(U32Times(d, 16 * a), cur)
                                /\ a < 15 => ~U32Le(U32Times(d, 16 * (a + 1)), cur) } } :
        TRUE

\* One step of the long division of n by d, for byte k of n: s.r is the
\* running remainder as <<high part, low 16 bits>>, below d before and
\* after the step, and s.q the quotient with its bytes above k in place.
U64DivByte(n, d, k, s) ==
    LET lo  == 256 * s.r[2] + U64Digit(n, k)
        cur == <<256 * s.r[1] + lo \div B16, lo % B16>>
    IN  CHOOSE s1 \in { [ r |-> U32Minus(cur, U32Times(d, t)),
                         q |-> U64SetDigit(s.q, k, t) ] :
                           t \in {U32Digit(d, cur)} } : TRUE

\* The steps for bytes k..0, each completed before the next is taken.
RECURSIVE U64DivStep(_, _, _, _)
U64DivStep(n, d, k, s) ==
    IF k < 0 THEN s.q
    ELSE CHOOSE q \in { U64DivStep(n, d, k - 1, s1) :
                           s1 \in {U64DivByte(n, d, k, s)} } : TRUE

\* The uint64_t quotient n / d of a uint64_t by a non-zero uint32_t.
U64DivU32(n, d) == U64DivStep(n, d, 7, [r |-> <<0, 0>>, q |-> <<0, 0, 0, 0>>])

(***************************************************************************)
(* AD9850.hpp: constants                                                   *)
(***************************************************************************)
OSC_HZ == 125000000
W_CLK == 10
FQ_UD == 11
DATA == 12
RESET == 13

GPIO_HI == 1
GPIO_LO == 0
POWER_DOWN == 1
POWER_UP == 0
PHASE_INC == 1125
PHASE_MAX == 32

Pins == {W_CLK, FQ_UD, DATA, RESET}

\* One gpio_put(pin, level) call.
gpio_put(pin, level) == <<[pin |-> pin, level |-> level]>>

\* The pin levels after the gpio_put calls of log, starting from levels:
\* each pin holds the level last written to it.
GpioAfter(levels, log) ==
    [p \in Pins |->
        LET w == {i \in 1..Len(log) : log[i].pin = p}
        IN  IF w = {} THEN levels[p]
            ELSE log[CHOOSE i \in w : \A j \in w : j <= i].level]

(***************************************************************************)
(* AD9850.hpp: private methods.  A method that drives pins is the sequence *)
(* of gpio_put calls it makes.                                             *)
(***************************************************************************)
\* Variant: the pin is driven low, then high, and stays high.
pulse_rising(pin) == gpio_put(pin, GPIO_LO) \o gpio_put(pin, GPIO_HI)

pulse(pin) == gpio_put(pin, GPIO_HI) \o gpio_put(pin, GPIO_LO)

write_data(pin, level) == gpio_put(pin, level)

\* The uint64_t quotient `frequency_reg / osc_hz` of calculate_frequency_register.
frequency_reg_div(osc_hz, frequency_hz) ==
    LET frequency_reg == U64Shl32(frequency_hz)
    IN  U64DivU32(frequency_reg, osc_hz)

\* Mutant: the shift is done on the 32-bit value and widened afterwards, so
\* the product is lost.
calculate_frequency_register_narrow(osc_hz, frequency_hz) ==
    U64ToU32(U64DivU32(<<0, 0, 0, 0>>, osc_hz))

calculate_frequency_register(osc_hz, frequency_hz) ==
    U64ToU32(frequency_reg_div(osc_hz, frequency_hz))

\* Mutant: the rounded quotient is not wrapped into the 5-bit register.
calculate_phase_register_unwrapped(phase) ==
    LET hq        == phase[1] \div PHASE_INC
        t         == (phase[1] % PHASE_INC) * B16 + phase[2]
        quotient  == hq * B16 + t \div PHASE_INC
        remainder == t % PHASE_INC
    IN  U32(IF 2 * remainder > PHASE_INC THEN quotient + 1 ELSE quotient)

\* Mutant: the remainder is never rounded up.
calculate_phase_register_truncating(phase) ==
    LET hq        == phase[1] \div PHASE_INC
        t         == (phase[1] % PHASE_INC) * B16 + phase[2]
        quotient  == hq * B16 + t \div PHASE_INC
    IN  U32(quotient % PHASE_MAX)

calculate_phase_register(phase) ==
    LET \* phase / PHASE_INC and phase % PHASE_INC, by long division on the
        \* two halves; the quotient is at most 3817748 and fits the int.
        hq        == phase[1] \div PHASE_INC
        t         == (phase[1] % PHASE_INC) * B16 + phase[2]
        quotient  == hq * B16 + t \div PHASE_INC
        remainder == t % PHASE_INC
        rounded   == IF 2 * remainder > PHASE_INC THEN quotient + 1 ELSE quotient
    IN  U32(rounded % PHASE_MAX)

\* Mutant: the bits are sent most significant first.
shift_out_msb_first(reg, n) ==
    [i \in 1..(3 * n) |->
        LET bit == (n - 1) - ((i - 1) \div 3)
            bit_value == IF U32Bit(reg, bit) = 0 THEN GPIO_LO ELSE GPIO_HI
        IN  CASE i % 3 = 1 -> write_data(DATA, bit_value)[1]
              [] i % 3 = 2 -> pulse(W_CLK)[1]
              [] OTHER     -> pulse(W_CLK)[2]]

\* The loop `for (bit = 0; bit < n; ++bit, mask <<= 1)` of program_dds:
\* each bit of reg, least significant first, written to the data pin and
\* clocked in.  Call 3*bit+1 is the write_data, the next two are the pulse.
shift_out(reg, n) ==
    [i \in 1..(3 * n) |->
        LET bit == (i - 1) \div 3
            bit_value == IF U32Bit(reg, bit) = 0 THEN GPIO_LO ELSE GPIO_HI
        IN  CASE i % 3 = 1 -> write_data(DATA, bit_value)[1]
              [] i % 3 = 2 -> pulse(W_CLK)[1]
              [] OTHER     -> pulse(W_CLK)[2]]

program_dds(frequency_register, phase_register, enable_out) ==
    shift_out(frequency_register, 32)
    \o write_data(DATA, GPIO_LO) \o pulse(W_CLK)
    \o write_data(DATA, GPIO_LO) \o pulse(W_CLK)
    \o write_data(DATA, IF enable_out THEN POWER_UP ELSE POWER_DOWN) \o pulse(W_CLK)
    \o shift_out(phase_register, 5)
    \o pulse(FQ_UD)

(***************************************************************************)
(* AD9850.hpp: public methods.  Each gives the object after the call and   *)
(* the gpio_put calls the call made.                                       *)
(***************************************************************************)
\* Mutant: the word clock is pulsed before the reset.
AD9850_clock_first(osc_hz) ==
    LET obj == [ osc_hz_             |-> osc_hz,
                 frequency_hz_       |-> U32(0),
                 phase_deg_          |-> U32(0),
                 enable_out_         |-> FALSE,
                 frequency_hz_t_     |-> U32(0),
                 phase_deg_t_        |-> U32(0),
                 enable_out_t_       |-> FALSE,
                 frequency_register_ |-> U32(0),
                 phase_register_     |-> U32(0) ]
    IN  [ obj |-> obj,
          io  |-> pulse(W_CLK) \o pulse(RESET) \o pulse(FQ_UD)
                  \o program_dds(obj.frequency_register_, obj.phase_register_,
                                 obj.enable_out_) ]

AD9850(osc_hz) ==
    LET obj == [ osc_hz_             |-> osc_hz,
                 frequency_hz_       |-> U32(0),
                 phase_deg_          |-> U32(0),
                 enable_out_         |-> FALSE,
                 frequency_hz_t_     |-> U32(0),
                 phase_deg_t_        |-> U32(0),
                 enable_out_t_       |-> FALSE,
                 frequency_register_ |-> U32(0),
                 phase_register_     |-> U32(0) ]
    IN  [ obj |-> obj,
          io  |-> pulse(RESET) \o pulse(W_CLK) \o pulse(FQ_UD)
                  \o program_dds(obj.frequency_register_, obj.phase_register_,
                                 obj.enable_out_) ]

\* Mutant: the setter writes the current state as well as the staged one.
set_frequency_immediate(d, frequency) ==
    [obj |-> [d EXCEPT !.frequency_hz_t_ = frequency, !.frequency_hz_ = frequency],
     io  |-> <<>>]

set_frequency(d, frequency) ==
    [obj |-> [d EXCEPT !.frequency_hz_t_ = frequency], io |-> <<>>]

set_phase(d, phase) ==
    [obj |-> [d EXCEPT !.phase_deg_t_ = phase], io |-> <<>>]

enable_out(d, enable) ==
    [obj |-> [d EXCEPT !.enable_out_t_ = enable], io |-> <<>>]

get_frequency(d) == d.frequency_hz_

get_phase(d) == d.phase_deg_

get_enabled(d) == d.enable_out_

\* Mutant: the raw requested phase is reported instead of the quantized one.
commit_raw_phase(d) ==
    LET freg == calculate_frequency_register(d.osc_hz_, d.frequency_hz_t_)
        preg == calculate_phase_register(d.phase_deg_t_)
        obj  == [d EXCEPT !.frequency_register_ = freg,
                          !.frequency_hz_       = d.frequency_hz_t_,
                          !.phase_register_     = preg,
                          !.phase_deg_          = d.phase_deg_t_,
                          !.enable_out_         = d.enable_out_t_]
    IN  [ obj |-> obj,
          io  |-> program_dds(obj.frequency_register_, obj.phase_register_,
                              obj.enable_out_) ]

commit(d) ==
    LET freg == calculate_frequency_register(d.osc_hz_, d.frequency_hz_t_)
        preg == calculate_phase_register(d.phase_deg_t_)
        obj  == [d EXCEPT !.frequency_register_ = freg,
                          !.frequency_hz_       = d.frequency_hz_t_,
                          !.phase_register_     = preg,
                          \* phase_register_ * PHASE_INC <= 31 * 1125
                          !.phase_deg_          = U32(preg[2] * PHASE_INC),
                          !.enable_out_         = d.enable_out_t_]
    IN  [ obj |-> obj,
          io  |-> program_dds(obj.frequency_register_, obj.phase_register_,
                              obj.enable_out_) ]

(***************************************************************************)
(* command_processor.hpp: command_t and std::optional                      *)
(***************************************************************************)
\* std::optional<T>: <<>> is std::nullopt, <<v>> holds v.
nullopt == <<>>
make_optional(v) == <<v>>
has_value(o) == o # <<>>
value(o) == o[1]

\* command_t {}
command_t ==
    [ command_number |-> 0,
      frequency_hz   |-> nullopt,
      phase_deg      |-> nullopt,
      enable_out     |-> nullopt,
      error          |-> nullopt ]

(***************************************************************************)
(* The serial alphabet.  A character is its code.  The text of a command   *)
(* is abstracted: each printable symbol below stands for one complete      *)
(* member of the JSON object (braces and commas are implied), and the byte *)
(* 128 for text that is not JSON.                                          *)
(***************************************************************************)
PICO_ERROR_TIMEOUT == -1
NUL == 0
LF == 10
CR == 13

\* The int64_t with value n, for 0 <= n < 2^31, as a uint64_t is kept.
I64(n) == <<0, 0>> \o U32(n)

\* The int a uint32_t converts to (two's complement).
IntOfU32(u) ==
    IF u[1] < 32768 THEN u[1] * B16 + u[2] ELSE (u[1] - B16) * B16 + u[2]

\* The symbols n m M N f F p P e E.  The value of a JSON_INTEGER member is
\* the int64_t that json_getInteger returns; M is "command_number":4294967297.
JsonMembers ==
    [ c \in {110, 109, 77, 78, 102, 70, 112, 80, 101, 69} |->
        CASE c = 110 -> [name |-> "command_number", type |-> "JSON_INTEGER", val |-> I64(1)]
          [] c = 109 -> [name |-> "command_number", type |-> "JSON_INTEGER", val |-> I64(2)]
          [] c = 77  -> [name |-> "command_number", type |-> "JSON_INTEGER", val |-> <<0, 1, 0, 1>>]
          [] c = 78  -> [name |-> "command_number", type |-> "JSON_TEXT", val |-> "1"]
          [] c = 102 -> [name |-> "frequency", type |-> "JSON_INTEGER", val |-> I64(10000000)]
          [] c = 70  -> [name |-> "frequency", type |-> "JSON_TEXT", val |-> "10000000"]
          [] c = 112 -> [name |-> "phase", type |-> "JSON_INTEGER", val |-> I64(1700)]
          [] c = 80  -> [name |-> "phase", type |-> "JSON_REAL", val |-> "17.0"]
          [] c = 101 -> [name |-> "enable_out", type |-> "JSON_BOOLEAN", val |-> TRUE]
          [] c = 69  -> [name |-> "enable_out", type |-> "JSON_INTEGER", val |-> I64(1)] ]

MAX_JSON_DEPTH == 8

\* A json_t const*: <<>> is the null pointer, <<j>> points to j.
NULL == <<>>

\* tiny-json's json_create over the pool mem[MAX_JSON_DEPTH]: the object
\* with its property list, or NULL when the text is not a JSON object or
\* needs more than MAX_JSON_DEPTH json_t (one for the object, one per member).
json_create(text) ==
    IF /\ \A i \in 1..Len(text) : text[i] \in DOMAIN JsonMembers
       /\ Len(text) + 1 <= MAX_JSON_DEPTH
    THEN <<[properties |-> [i \in 1..Len(text) |-> JsonMembers[text[i]]]]>>
    ELSE NULL

\* tiny-json's json_getProperty: the first property of that name, or NULL.
json_getProperty(json, name) ==
    LET properties == json[1].properties
        at == {i \in 1..Len(properties) : properties[i].name = name}
    IN  IF at = {} THEN NULL
        ELSE <<properties[CHOOSE i \in at : \A j \in at : i <= j]>>

json_getType(property) == property[1].type

\* tiny-json's json_getInteger (an int64_t) and json_getBoolean.
json_getInteger(property) == property[1].val
json_getBoolean(property) == property[1].val

(***************************************************************************)
(* command_processor.hpp: class CommandProcessor                           *)
(***************************************************************************)
\* The source has COMMAND_BUFFER_LEN = 1024; the model scales it down.
COMMAND_BUFFER_LEN == 4
MAX_COMMAND_LEN == COMMAND_BUFFER_LEN - 1

\* Output items: what std::cout receives.
Echo(c) == [kind |-> "echo", character |-> c]
Prompt == [kind |-> "prompt"]
Echoes(out) == SelectSeq(out, LAMBDA x : x.kind = "echo")

reflect(c) == <<Echo(IF c = NUL THEN LF ELSE c)>>

display_prompt == <<Prompt>>

reset_command_buffer(cp) ==
    [cp EXCEPT !.command_buffer_ = [i \in 1..COMMAND_BUFFER_LEN |-> NUL],
               !.command_buffer_index_ = 0]

\* CommandProcessor::CommandProcessor
CommandProcessor ==
    reset_command_buffer(
        [ commands_             |-> <<>>,
          command_buffer_       |-> <<>>,
          command_buffer_index_ |-> 0,
          show_prompt_          |-> FALSE,
          crlf_                 |-> FALSE ])

\* The C string held in the buffer: the bytes before the first NUL.  Element
\* i + 1 of the sequence is command_buffer_[i].
c_str(buffer) ==
    LET z == {i \in 1..Len(buffer) : buffer[i] = NUL}
    IN  IF z = {} THEN buffer
        ELSE SubSeq(buffer, 1, (CHOOSE i \in z : \A j \in z : i <= j) - 1)

WithError(cmd, message) == [cmd EXCEPT !.error = make_optional(message)]

\* Variant: the type of command_number is not looked at.
parse_json_command_buffer_untyped_number(cp) ==
    LET json == json_create(c_str(cp.command_buffer_))
        number == json_getProperty(json, "command_number")
        enable == json_getProperty(json, "enable_out")
        frequency == json_getProperty(json, "frequency")
        phase == json_getProperty(json, "phase")
        c0 == command_t
        c1 == [c0 EXCEPT !.command_number =
                  IF json_getType(number) = "JSON_INTEGER"
                  THEN IntOfU32(U64ToU32(json_getInteger(number))) ELSE 1]
        c2 == IF enable = NULL THEN c1
              ELSE [c1 EXCEPT !.enable_out = make_optional(json_getBoolean(enable))]
        c3 == IF frequency = NULL THEN c2
              ELSE [c2 EXCEPT !.frequency_hz = make_optional(U64ToU32(json_getInteger(frequency)))]
        c4 == IF phase = NULL THEN c3
              ELSE [c3 EXCEPT !.phase_deg = make_optional(U64ToU32(json_getInteger(phase)))]
    IN  IF json = NULL
        THEN WithError(c0, "Error creating json from command buffer")
        ELSE IF number = NULL
        THEN WithError(c0, "Error parsing command number")
        ELSE IF enable # NULL /\ "JSON_BOOLEAN" # json_getType(enable)
        THEN WithError(c1, "Error parsing enable flag.")
        ELSE IF frequency # NULL /\ "JSON_INTEGER" # json_getType(frequency)
        THEN WithError(c2, "Error parsing frequency.")
        ELSE IF phase # NULL /\ "JSON_INTEGER" # json_getType(phase)
        THEN WithError(c3, "Error parsing phase")
        ELSE c4

\* Variant: the optional fields are checked in the order frequency, phase,
\* enable_out.
parse_json_command_buffer_frequency_first(cp) ==
    LET json == json_create(c_str(cp.command_buffer_))
        number == json_getProperty(json, "command_number")
        enable == json_getProperty(json, "enable_out")
        frequency == json_getProperty(json, "frequency")
        phase == json_getProperty(json, "phase")
        c0 == command_t
        c1 == [c0 EXCEPT !.command_number =
                  IntOfU32(U64ToU32(json_getInteger(number)))]
        c2 == IF frequency = NULL THEN c1
              ELSE [c1 EXCEPT !.frequency_hz = make_optional(U64ToU32(json_getInteger(frequency)))]
        c3 == IF phase = NULL THEN c2
              ELSE [c2 EXCEPT !.phase_deg = make_optional(U64ToU32(json_getInteger(phase)))]
        c4 == IF enable = NULL THEN c3
              ELSE [c3 EXCEPT !.enable_out = make_optional(json_getBoolean(enable))]
    IN  IF json = NULL
        THEN WithError(c0, "Error creating json from command buffer")
        ELSE IF number = NULL \/ "JSON_INTEGER" # json_getType(number)
        THEN WithError(c0, "Error parsing command number")
        ELSE IF frequency # NULL /\ "JSON_INTEGER" # json_getType(frequency)
        THEN WithError(c1, "Error parsing frequency.")
        ELSE IF phase # NULL /\ "JSON_INTEGER" # json_getType(phase)
        THEN WithError(c2, "Error parsing phase")
        ELSE IF enable # NULL /\ "JSON_BOOLEAN" # json_getType(enable)
        THEN WithError(c3, "Error parsing enable flag.")
        ELSE c4

parse_json_command_buffer(cp) ==
    LET json == json_create(c_str(cp.command_buffer_))
        number == json_getProperty(json, "command_number")
        enable == json_getProperty(json, "enable_out")
        frequency == json_getProperty(json, "frequency")
        phase == json_getProperty(json, "phase")
        c0 == command_t
        c1 == [c0 EXCEPT !.command_number =
                  IntOfU32(U64ToU32(json_getInteger(number)))]
        c2 == IF enable = NULL THEN c1
              ELSE [c1 EXCEPT !.enable_out = make_optional(json_getBoolean(enable))]
        c3 == IF frequency = NULL THEN c2
              ELSE [c2 EXCEPT !.frequency_hz = make_optional(U64ToU32(json_getInteger(frequency)))]
        c4 == IF phase = NULL THEN c3
              ELSE [c3 EXCEPT !.phase_deg = make_optional(U64ToU32(json_getInteger(phase)))]
    IN  IF json = NULL
        THEN WithError(c0, "Error creating json from command buffer")
        ELSE IF number = NULL \/ "JSON_INTEGER" # json_getType(number)
        THEN WithError(c0, "Error parsing command number")
        ELSE IF enable # NULL /\ "JSON_BOOLEAN" # json_getType(enable)
        THEN WithError(c1, "Error parsing enable flag.")
        ELSE IF frequency # NULL /\ "JSON_INTEGER" # json_getType(frequency)
        THEN WithError(c2, "Error parsing frequency.")
        ELSE IF phase # NULL /\ "JSON_INTEGER" # json_getType(phase)
        THEN WithError(c3, "Error parsing phase")
        ELSE c4

add_command_to_fifo(cp) ==
    [cp EXCEPT !.commands_ = Append(@, parse_json_command_buffer(cp))]

command_is_available(cp) == Len(cp.commands_) > 0

number_of_commands(cp) == Len(cp.commands_)

\* Variant: the command returned stays in the fifo.
get_command_kept(cp) ==
    IF command_is_available(cp)
    THEN [obj |-> cp, ret |-> cp.commands_[1]]
    ELSE [obj |-> cp, ret |-> command_t]

\* Variant: the newest command is taken.
get_command_newest(cp) ==
    IF command_is_available(cp)
    THEN [ obj |-> [cp EXCEPT !.commands_ = SubSeq(@, 1, Len(@) - 1)],
           ret |-> cp.commands_[Len(cp.commands_)] ]
    ELSE [obj |-> cp, ret |-> command_t]

\* The object after the call and the command returned.
get_command(cp) ==
    IF command_is_available(cp)
    THEN [obj |-> [cp EXCEPT !.commands_ = Tail(@)], ret |-> cp.commands_[1]]
    ELSE [obj |-> cp, ret |-> command_t]

\* Lines 105-140 of loop(), for a character ch that was received and is
\* not a line feed to skip: the object after them, what they wrote to
\* std::cout, and the lines they handed to add_command_to_fifo.
loop_received(cp, ch) ==
    LET cp1 == [cp EXCEPT !.crlf_ = (ch = CR)]
        mapped == IF ch = CR \/ ch = LF THEN NUL ELSE ch
    IN  IF mapped = NUL
        THEN LET cp2 == IF cp1.command_buffer_index_ > 0
                        THEN reset_command_buffer(add_command_to_fifo(cp1))
                        ELSE cp1
             IN  [ obj   |-> [cp2 EXCEPT !.show_prompt_ = TRUE],
                   out   |-> reflect(mapped),
                   lines |-> IF cp1.command_buffer_index_ > 0
                             THEN <<c_str(cp1.command_buffer_)>> ELSE <<>> ]
        ELSE IF cp1.command_buffer_index_ >= MAX_COMMAND_LEN
        THEN [obj |-> cp1, out |-> <<>>, lines |-> <<>>]
        ELSE IF mapped >= 32 /\ mapped <= 128
        THEN [ obj   |-> [cp1 EXCEPT
                            !.command_buffer_[cp1.command_buffer_index_ + 1] = mapped,
                            !.command_buffer_index_ = @ + 1],
               out   |-> reflect(mapped),
               lines |-> <<>> ]
        ELSE [obj |-> cp1, out |-> <<>>, lines |-> <<>>]

\* Variant: a line feed is never skipped.
loop_character_uncollapsed(cp, ch) ==
    IF ch = PICO_ERROR_TIMEOUT
    THEN [obj |-> cp, out |-> <<>>, lines |-> <<>>]
    ELSE loop_received(cp, ch)

\* Lines 89-140 of loop(), for the value ch that stdio_getchar_timeout_us
\* returned.
loop_character(cp, ch) ==
    IF ch = PICO_ERROR_TIMEOUT
    THEN [obj |-> cp, out |-> <<>>, lines |-> <<>>]
    ELSE IF ch = LF /\ cp.crlf_
    THEN [obj |-> [cp EXCEPT !.crlf_ = FALSE], out |-> <<>>, lines |-> <<>>]
    ELSE loop_received(cp, ch)

\* CommandProcessor::loop, for the value ch read from stdio.
loop(cp, ch) ==
    LET prompted == IF cp.show_prompt_ THEN display_prompt ELSE <<>>
        r == loop_character([cp EXCEPT !.show_prompt_ = FALSE], ch)
    IN  [obj |-> r.obj, out |-> prompted \o r.out, lines |-> r.lines]

(***************************************************************************)
(* pico-siggen.cpp                                                         *)
(***************************************************************************)
show_error(cmd) ==
    << [ kind           |-> "error",
         command_number |-> cmd.command_number,
         error          |-> value(cmd.error) ] >>

ack_command(command_number, d) ==
    << [ kind           |-> "ack",
         command_number |-> command_number,
         frequency      |-> get_frequency(d),
         phase          |-> get_phase(d),
         enable_out     |-> get_enabled(d) ] >>

\* A driver call with result s made after the calls with result r: the
\* driver after both and the gpio_put calls of both, in order.
Then(r, s) == [obj |-> s.obj, io |-> r.io \o s.io]

\* Variant: an absent frequency is applied as 0.
apply_frequency_defaulted(r, cmd) ==
    Then(r, set_frequency(r.obj, IF has_value(cmd.frequency_hz)
                                 THEN value(cmd.frequency_hz) ELSE U32(0)))

\* Lines 117-120: if (command.frequency_hz.has_value()) dds.set_frequency(...)
apply_frequency(r, cmd) ==
    IF has_value(cmd.frequency_hz)
    THEN Then(r, set_frequency(r.obj, value(cmd.frequency_hz)))
    ELSE r

\* Lines 122-125: if (command.phase_deg.has_value()) dds.set_phase(...)
apply_phase(r, cmd) ==
    IF has_value(cmd.phase_deg)
    THEN Then(r, set_phase(r.obj, value(cmd.phase_deg)))
    ELSE r

\* Lines 127-130: if (command.enable_out.has_value()) dds.enable_out(...)
apply_enable_out(r, cmd) ==
    IF has_value(cmd.enable_out)
    THEN Then(r, enable_out(r.obj, value(cmd.enable_out)))
    ELSE r

\* Line 132: dds.commit();
apply_commit(r) == Then(r, commit(r.obj))

\* Variant: a command without optional fields is not committed.
apply_command_uncommitted(d, cmd) ==
    IF has_value(cmd.frequency_hz) \/ has_value(cmd.phase_deg)
           \/ has_value(cmd.enable_out)
    THEN apply_commit(
             apply_enable_out(
                 apply_phase(
                     apply_frequency([obj |-> d, io |-> <<>>], cmd), cmd), cmd))
    ELSE [obj |-> d, io |-> <<>>]

\* The setter calls and the commit of one command (lines 117-132): the
\* driver after them and the gpio_put calls made.
apply_command(d, cmd) ==
    apply_commit(
        apply_enable_out(
            apply_phase(
                apply_frequency([obj |-> d, io |-> <<>>], cmd), cmd), cmd))

\* Line 136, after the command g.ret was applied with result a.
main_ack(r, g, a) ==
    [ cp |-> g.obj, dds |-> a.obj, io |-> a.io,
      out |-> r.out \o ack_command(g.ret.command_number, a.obj),
      command |-> make_optional(g.ret), lines |-> r.lines ]

\* Variant: a command that carries an error is dropped without a response.
main_command_silent(r, g, d) ==
    IF has_value(g.ret.error)
    THEN [ cp |-> g.obj, dds |-> d, io |-> <<>>, out |-> r.out,
           command |-> make_optional(g.ret), lines |-> r.lines ]
    ELSE main_ack(r, g, apply_command(d, g.ret))

\* Variant: the command is applied and acknowledged whether or not it carries
\* an error.
main_command_unchecked(r, g, d) ==
    main_ack(r, g, apply_command(d, g.ret))

\* Lines 105-136, for the result g of get_command: an error is shown and
\* the iteration ends (continue); any other command is applied and
\* acknowledged.
main_command(r, g, d) ==
    IF has_value(g.ret.error)
    THEN [ cp |-> g.obj, dds |-> d, io |-> <<>>,
           out |-> r.out \o show_error(g.ret),
           command |-> make_optional(g.ret), lines |-> r.lines ]
    ELSE main_ack(r, g, apply_command(d, g.ret))

\* Lines 101-137, for the result r of loop().
main_available(r, d) ==
    IF command_is_available(r.obj)
    THEN main_command(r, get_command(r.obj), d)
    ELSE [ cp |-> r.obj, dds |-> d, io |-> <<>>, out |-> r.out,
           command |-> nullopt, lines |-> r.lines ]

\* One iteration of main's while loop, for the value ch read from stdio:
\* the command processor and the driver after it, the gpio_put calls made,
\* the output written, the command dequeued (if any) and the lines completed.
main_loop(cp, d, ch) == main_available(loop(cp, ch), d)

(***************************************************************************)
(* State                                                                   *)
(***************************************************************************)
VARIABLES
    dds,          \* the AD9850 object (main's local `dds`)
    gpio,         \* the level of each output pin
    gpio0,        \* the pin levels when the most recent step began
    gpio_log,     \* the gpio_put calls of the most recent step, in order
    requested,    \* the argument of the most recent call of each setter
    op,           \* the most recent step: the method called, or main's part
    command_processor,  \* the CommandProcessor object (main's local)
    character,    \* what stdio_getchar_timeout_us returned to the latest loop()
    stdout,       \* what the most recent step wrote to std::cout, in order
    lines,        \* the lines the most recent step handed to the decoder
    command,      \* the command the most recent step took from the fifo, if any
    completed,    \* SpecCP: the decoded command of every completed line so far
    returned,     \* SpecCP: every command get_command took from the fifo so far
    previous,     \* the character received last before the latest loop()
    typed,        \* SpecLine: the printable characters received since the last CR or LF
    echoed,       \* SpecLine: the characters echoed since the last echoed newline
    after_cr,     \* SpecMain: the character received last was a CR
    terminated,   \* SpecMain: the last call of loop() received a CR, or an LF
                  \* that did not directly follow a CR
    codec_args,   \* SpecCodec: the arguments a register calculation is applied to
    codec_result  \* SpecCodec: its result, <<>> before it is applied

ddsVars == <<dds, gpio, gpio0, gpio_log, requested>>

cpVars == <<command_processor, character, stdout, lines, command>>

historyVars == <<completed, returned, previous, typed, echoed, after_cr, terminated>>

codecVars == <<codec_args, codec_result>>

vars == <<ddsVars, op, cpVars, historyVars, codecVars>>

U32_MAX == <<65535, 65535>>

\* gpio_init leaves every pin low.
GpioInit == [p \in Pins |-> GPIO_LO]

\* The driver's state after the constructor call AD9850(osc, W_CLK, FQ_UD,
\* DATA, RESET).
DdsConstructed(osc) ==
    /\ dds = AD9850(osc).obj
    /\ gpio0 = GpioInit
    /\ gpio_log = AD9850(osc).io
    /\ gpio = GpioAfter(GpioInit, AD9850(osc).io)
    /\ requested = [frequency |-> U32(0), phase |-> U32(0), enable |-> FALSE]

\* The effect of a driver call with result r on the driver's state.
DdsCall(r) ==
    /\ dds' = r.obj
    /\ gpio0' = gpio
    /\ gpio_log' = r.io
    /\ gpio' = GpioAfter(gpio, r.io)

\* The driver's variables where the driver is not called: no call is on
\* record and no pin has been written.
DriverUnused ==
    /\ dds = AD9850(U32(OSC_HZ)).obj
    /\ gpio0 = GpioInit
    /\ gpio = GpioInit
    /\ gpio_log = <<>>
    /\ requested = [frequency |-> U32(0), phase |-> U32(0), enable |-> FALSE]

\* The command processor after its constructor, nothing read or written yet.
CpConstructed ==
    /\ command_processor = CommandProcessor
    /\ character = PICO_ERROR_TIMEOUT
    /\ stdout = <<>>
    /\ lines = <<>>
    /\ command = nullopt

NoHistory ==
    /\ completed = <<>>
    /\ returned = <<>>
    /\ previous = PICO_ERROR_TIMEOUT
    /\ typed = <<>>
    /\ echoed = <<>>
    /\ after_cr = FALSE
    /\ terminated = FALSE

CodecIdle ==
    /\ codec_args = [fn |-> "none"]
    /\ codec_result = <<>>

(***************************************************************************)
(* SpecDDS: the driver's public methods called in any order                *)
(***************************************************************************)
\* Arguments the calls are tried with.
OscArgs == {U32(3), U32(OSC_HZ), U32_MAX}
FrequencyArgs == {U32(1000), U32(OSC_HZ), U32_MAX}
PhaseArgs == {U32(562), U32(1700), U32(2250), U32(35999), U32_MAX}

InitDDS ==
    /\ \E osc \in OscArgs : DdsConstructed(osc)
    /\ op = "AD9850"
    /\ CpConstructed /\ NoHistory /\ CodecIdle

SetFrequency ==
    \E f \in FrequencyArgs :
        /\ DdsCall(set_frequency(dds, f))
        /\ op' = "set_frequency"
        /\ requested' = [requested EXCEPT !.frequency = f]
        /\ UNCHANGED <<cpVars, historyVars, codecVars>>

SetPhase ==
    \E p \in PhaseArgs :
        /\ DdsCall(set_phase(dds, p))
        /\ op' = "set_phase"
        /\ requested' = [requested EXCEPT !.phase = p]
        /\ UNCHANGED <<cpVars, historyVars, codecVars>>

EnableOut ==
    \E e \in BOOLEAN :
        /\ DdsCall(enable_out(dds, e))
        /\ op' = "enable_out"
        /\ requested' = [requested EXCEPT !.enable = e]
        /\ UNCHANGED <<cpVars, historyVars, codecVars>>

Commit ==
    /\ DdsCall(commit(dds))
    /\ op' = "commit"
    /\ UNCHANGED <<requested, cpVars, historyVars, codecVars>>

NextDDS == SetFrequency \/ SetPhase \/ EnableOut \/ Commit

SpecDDS == InitDDS /\ [][NextDDS]_vars

(***************************************************************************)
(* SpecCodec: the two register calculations applied to drawn arguments     *)
(***************************************************************************)
\* Phases are drawn from 0..MaxPhaseOffset above each of these, and from
\* the top of the 32-bit range.
MaxPhaseOffset == 1200
PhaseBases == {0, 16 * PHASE_INC, 31 * PHASE_INC}
CodecPhases ==
    {U32(b + n) : b \in PhaseBases, n \in 0..MaxPhaseOffset}
    \cup {<<h, l>> : h \in {32767, 32768, 65535}, l \in {0, 1, 65534, 65535}}

CodecFrequencies ==
    {U32(0), U32(1), U32(1000), U32(62500000), U32(OSC_HZ - 1), U32(OSC_HZ),
     U32(OSC_HZ + 1), <<32767, 65535>>, <<32768, 0>>, U32_MAX}
CodecOscs ==
    {U32(3), U32(1000), U32(OSC_HZ), <<32768, 0>>, U32_MAX}

InitCodec ==
    /\ DriverUnused
    /\ op = "none"
    /\ CpConstructed /\ NoHistory
    /\ codec_args \in
          {[fn |-> "calculate_phase_register", phase |-> p] : p \in CodecPhases}
          \cup {[fn |-> "calculate_frequency_register", osc_hz |-> o, frequency_hz |-> f] :
                   o \in CodecOscs, f \in CodecFrequencies}
    /\ codec_result = <<>>

CalculatePhaseRegister ==
    /\ codec_args.fn = "calculate_phase_register"
    /\ codec_result = <<>>
    /\ codec_result' = calculate_phase_register(codec_args.phase)
    /\ UNCHANGED <<ddsVars, op, cpVars, historyVars, codec_args>>

CalculateFrequencyRegister ==
    /\ codec_args.fn = "calculate_frequency_register"
    /\ codec_result = <<>>
    /\ codec_result' =
           calculate_frequency_register(codec_args.osc_hz, codec_args.frequency_hz)
    /\ UNCHANGED <<ddsVars, op, cpVars, historyVars, codec_args>>

NextCodec == CalculatePhaseRegister \/ CalculateFrequencyRegister

SpecCodec == InitCodec /\ [][NextCodec]_vars

(***************************************************************************)
(* SpecCP: loop() and get_command() of a CommandProcessor called in any    *)
(* order, loop() reading any character or nothing                          *)
(***************************************************************************)
\* What stdio_getchar_timeout_us returns here: nothing, NUL, LF, CR, two
\* bytes outside 32..128, and the printable symbols n and m.
CPInput == {PICO_ERROR_TIMEOUT, NUL, LF, CR, 31, 129, 110, 109}

\* Lines completed before the input stops completing more.
MaxLines == 3

\* The command the decoder makes of a line.
Decoded(line) ==
    parse_json_command_buffer(
        [CommandProcessor EXCEPT !.command_buffer_ = line \o <<NUL>>])

InitCP ==
    /\ DriverUnused
    /\ op = "CommandProcessor"
    /\ CpConstructed /\ NoHistory /\ CodecIdle

Loop ==
    \E ch \in CPInput :
        LET r == loop(command_processor, ch)
        IN  /\ Len(completed) + Len(r.lines) <= MaxLines
            /\ command_processor' = r.obj
            /\ character' = ch
            /\ stdout' = r.out
            /\ lines' = r.lines
            /\ completed' = completed \o [i \in 1..Len(r.lines) |-> Decoded(r.lines[i])]
            /\ previous' = IF character = PICO_ERROR_TIMEOUT THEN previous ELSE character
            /\ op' = "loop"
            /\ UNCHANGED <<ddsVars, command, returned, typed, echoed, after_cr, terminated, codecVars>>

GetCommand ==
    LET g == get_command(command_processor)
    IN  /\ command_processor' = g.obj
        /\ command' = make_optional(g.ret)
        /\ returned' = IF command_is_available(command_processor)
                       THEN Append(returned, g.ret) ELSE returned
        /\ stdout' = <<>>
        /\ lines' = <<>>
        /\ op' = "get_command"
        /\ UNCHANGED <<ddsVars, character, completed, previous, typed, echoed, after_cr, terminated, codecVars>>

NextCP == Loop \/ GetCommand

SpecCP == InitCP /\ [][NextCP]_vars

(***************************************************************************)
(* SpecLine: the same two calls in any order, with the characters received *)
(* on record instead of the commands                                       *)
(***************************************************************************)
\* What stdio_getchar_timeout_us returns here: nothing, NUL, LF, CR, the
\* ends 32 and 128 of the printable range and their neighbours 31 and 129.
LineInput == {PICO_ERROR_TIMEOUT, NUL, LF, CR, 31, 32, 128, 129}

\* Commands queued before the input stops completing lines.
MaxQueued == 1

\* Printable characters received beyond the capacity of the line buffer
\* before the input stops sending more of them to the same line.
MaxOverlong == 2

\* The printable range of loop(), line 133.
IsPrintable(ch) == ch >= 32 /\ ch <= 128

InitLine ==
    /\ DriverUnused
    /\ op = "CommandProcessor"
    /\ CpConstructed /\ NoHistory /\ CodecIdle

Receive ==
    \E ch \in LineInput : \E r \in {loop(command_processor, ch)} :
        /\ number_of_commands(r.obj) <= MaxQueued
        /\ IsPrintable(ch) => Len(typed) < MAX_COMMAND_LEN + MaxOverlong
        /\ command_processor' = r.obj
        /\ character' = ch
        /\ stdout' = r.out
        /\ lines' = r.lines
        /\ previous' = IF character = PICO_ERROR_TIMEOUT THEN previous ELSE character
        /\ typed' = IF ch = CR \/ ch = LF THEN <<>>
                    ELSE IF IsPrintable(ch) THEN Append(typed, ch)
                    ELSE typed
        /\ echoed' = IF Echoes(r.out) = <<>> THEN echoed
                     ELSE IF Echoes(r.out)[1].character = LF THEN <<>>
                     ELSE echoed \o [i \in 1..Len(Echoes(r.out)) |->
                                        Echoes(r.out)[i].character]
        /\ op' = "loop"
        /\ UNCHANGED <<ddsVars, command, completed, returned, after_cr, terminated, codecVars>>

Take ==
    \E g \in {get_command(command_processor)} :
        /\ command_processor' = g.obj
        /\ command' = make_optional(g.ret)
        /\ stdout' = <<>>
        /\ lines' = <<>>
        /\ op' = "get_command"
        /\ UNCHANGED <<ddsVars, character, historyVars, codecVars>>

NextLine == Receive \/ Take

SpecLine == InitLine /\ [][NextLine]_vars

(***************************************************************************)
(* SpecDecode: parse_json_command_buffer applied to drawn lines            *)
(***************************************************************************)
\* The symbols a drawn line is made of: every member symbol and the byte
\* 128 (text that is not JSON).
DecodeSymbols == DOMAIN JsonMembers \cup {128}

\* The longest line drawn.
MaxLineLen == 4

DecodeLines == UNION {[1..n -> DecodeSymbols] : n \in 1..MaxLineLen}

InitDecode ==
    /\ DriverUnused
    /\ op = "none"
    /\ CpConstructed /\ NoHistory
    /\ codec_args \in {[fn |-> "parse_json_command_buffer", line |-> l] : l \in DecodeLines}
    /\ codec_result = <<>>

\* The command is kept as <<command>>.
ParseJsonCommandBuffer ==
    /\ codec_args.fn = "parse_json_command_buffer"
    /\ codec_result = <<>>
    /\ codec_result' = <<Decoded(codec_args.line)>>
    /\ UNCHANGED <<ddsVars, op, cpVars, historyVars, codec_args>>

NextDecode == ParseJsonCommandBuffer

SpecDecode == InitDecode /\ [][NextDecode]_vars

(***************************************************************************)
(* SpecMain: main(), one step per iteration of its while loop              *)
(***************************************************************************)
\* What stdio_getchar_timeout_us returns here: nothing, NUL, LF, CR, and
\* the printable symbols n f F p e.
MainInput == {PICO_ERROR_TIMEOUT, NUL, LF, CR, 110, 102, 70, 112, 101}

\* The state at line 85 of main: the driver constructed; the command
\* processor, which nothing touches before the loop, constructed as well.
InitMain ==
    /\ DdsConstructed(U32(OSC_HZ))
    /\ op = "AD9850"
    /\ CpConstructed /\ NoHistory /\ CodecIdle

\* Lines 86-87: dds.set_frequency(1000); dds.commit();
MainSetup ==
    /\ op = "AD9850"
    /\ LET s1 == set_frequency(dds, U32(1000))
           s2 == commit(s1.obj)
       IN  DdsCall([obj |-> s2.obj, io |-> s1.io \o s2.io])
    /\ requested' = [requested EXCEPT !.frequency = U32(1000)]
    /\ op' = "main_setup"
    /\ UNCHANGED <<cpVars, historyVars, codecVars>>

\* Lines 96-138: one iteration of while (true).
MainLoop ==
    /\ op # "AD9850"
    /\ \E ch \in MainInput : \E m \in {main_loop(command_processor, dds, ch)} :
        LET applied == has_value(m.command) /\ ~has_value(value(m.command).error)
            cmd == value(m.command)
        IN  /\ DdsCall([obj |-> m.dds, io |-> m.io])
            /\ command_processor' = m.cp
            /\ character' = ch
            /\ stdout' = m.out
            /\ lines' = m.lines
            /\ command' = m.command
            /\ requested' =
                 IF ~applied THEN requested
                 ELSE [ frequency |-> IF has_value(cmd.frequency_hz)
                                      THEN value(cmd.frequency_hz) ELSE requested.frequency,
                        phase     |-> IF has_value(cmd.phase_deg)
                                      THEN value(cmd.phase_deg) ELSE requested.phase,
                        enable    |-> IF has_value(cmd.enable_out)
                                      THEN value(cmd.enable_out) ELSE requested.enable ]
            /\ after_cr' = IF ch = PICO_ERROR_TIMEOUT THEN after_cr ELSE ch = CR
            /\ terminated' = (ch = CR \/ (ch = LF /\ ~after_cr))
            /\ op' = "main_loop"
            /\ UNCHANGED <<completed, returned, previous, typed, echoed, codecVars>>

NextMain == MainSetup \/ MainLoop

SpecMain == InitMain /\ [][NextMain]_vars

(***************************************************************************)
(* Exact natural numbers, for stating what a register should hold: a       *)
(* natural is the sequence of its base-256 digits, least significant       *)
(* first.  A raw natural may hold digits above 255; NatNorm carries them.  *)
(***************************************************************************)
B8 == 2 ^ 8

NatOfU32(u) == <<u[2] % B8, u[2] \div B8, u[1] % B8, u[1] \div B8>>

NatOfU64(q) == NatOfU32(<<q[3], q[4]>>) \o NatOfU32(<<q[1], q[2]>>)

NatDigit(a, i) == IF i \in 1..Len(a) THEN a[i] ELSE 0

\* Column k of the product of a (at most 8 digits) and b: the sum of the
\* a[i] * b[j] with i + j = k + 1.
NatColumn(a, b, k) ==
      NatDigit(a, 1) * NatDigit(b, k)     + NatDigit(a, 2) * NatDigit(b, k - 1)
    + NatDigit(a, 3) * NatDigit(b, k - 2) + NatDigit(a, 4) * NatDigit(b, k - 3)
    + NatDigit(a, 5) * NatDigit(b, k - 4) + NatDigit(a, 6) * NatDigit(b, k - 5)
    + NatDigit(a, 7) * NatDigit(b, k - 6) + NatDigit(a, 8) * NatDigit(b, k - 7)

NatMul(a, b) == [k \in 1..(Len(a) + Len(b)) |-> NatColumn(a, b, k)]

NatAdd(a, b) ==
    [k \in 1..(IF Len(a) > Len(b) THEN Len(a) ELSE Len(b)) |->
        NatDigit(a, k) + NatDigit(b, k)]

\* The 13 digits of a raw natural below 256^13, from digit k on with carry c.
RECURSIVE NatCarry(_, _, _)
NatCarry(a, k, c) ==
    IF k > 13 THEN <<>>
    ELSE LET t == NatDigit(a, k) + c
         IN  IF t < B8 THEN <<t>> \o NatCarry(a, k + 1, 0)
             ELSE <<t % B8>> \o NatCarry(a, k + 1, t \div B8)

NatNorm(a) == NatCarry(a, 1, 0)

NatLt(a, b) ==
    LET x == NatNorm(a)
        y == NatNorm(b)
    IN  \E k \in 1..13 : x[k] < y[k] /\ \A j \in (k + 1)..13 : x[j] = y[j]

\* q = floor(n / d)
IsFloorOf(q, n, d) ==
    \E qd \in {NatNorm(NatMul(q, d))} :
        ~NatLt(n, qd) /\ NatLt(n, NatAdd(qd, d))

\* frequency_hz * 2^32
NatShl32(f) == <<0, 0, 0, 0>> \o NatOfU32(f)

(***************************************************************************)
(* Claims about the DDS driver                                             *)
(***************************************************************************)
Setters == {"set_frequency", "set_phase", "enable_out"}

\* C1: a set_frequency, set_phase or enable_out call leaves what
\* get_frequency, get_phase and get_enabled return as it was before the
\* call, and makes no GPIO write; so the getters keep their values over any
\* sequence of setter calls, until the next commit.
C1_StagingIsolation ==
    [][op' \in Setters =>
          /\ get_frequency(dds') = get_frequency(dds)
          /\ get_phase(dds') = get_phase(dds)
          /\ get_enabled(dds') = get_enabled(dds)
          /\ gpio_log' = <<>>
          /\ gpio' = gpio]_vars

\* A setter has been called after a commit and the staged frequency, phase
\* and enable flag all differ from the committed ones.
C1_Witness ==
    /\ op \in Setters
    /\ get_frequency(dds) = U32(1000)
    /\ dds.frequency_hz_t_ = U32_MAX
    /\ dds.phase_deg_t_ = U32(1700)
    /\ get_phase(dds) = U32(0)
    /\ dds.enable_out_t_ /\ ~get_enabled(dds)

\* p div 1125 and p mod 1125 of a 32-bit p = hi * 65536 + lo, from
\* 65536 = 58 * 1125 + 286.
PhaseDiv(p) == 58 * p[1] + (286 * p[1] + p[2]) \div 1125
PhaseMod(p) == (286 * p[1] + p[2]) % 1125

\* The phase register the specification gives for a requested phase.
SpecPhaseRegister(p) ==
    (PhaseDiv(p) + (IF 2 * PhaseMod(p) > 1125 THEN 1 ELSE 0)) % 32

\* C2: right after a commit, get_frequency and get_enabled are the most
\* recent set_frequency and enable_out arguments (0 and false if never
\* called) and get_phase is 1125 times the phase register of the most recent
\* set_phase argument; a requested multiple of 1125 below 36000 is reported
\* unchanged.
C2_CommitPublishesStaged ==
    op = "commit" =>
        /\ get_frequency(dds) = requested.frequency
        /\ get_enabled(dds) = requested.enable
        /\ get_phase(dds) = U32(1125 * SpecPhaseRegister(requested.phase))
        /\ (/\ requested.phase[1] = 0
            /\ requested.phase[2] % 1125 = 0
            /\ requested.phase[2] < 36000) => get_phase(dds) = requested.phase

\* A commit of a requested phase 17.00 deg, reported as 22.50 deg, with the
\* frequency set and the output never enabled.
C2_Witness ==
    /\ op = "commit"
    /\ requested = [frequency |-> U32(OSC_HZ), phase |-> U32(1700), enable |-> FALSE]
    /\ get_phase(dds) = U32(2250)

\* C3: in every state of the driver get_phase is a multiple of 1125 in
\* [0, 36000).
C3_ReportedPhaseQuantized ==
    /\ get_phase(dds)[1] = 0
    /\ get_phase(dds)[2] % 1125 = 0
    /\ get_phase(dds)[2] \in 0..35999

\* The largest 32-bit phase has been committed and is reported as 236.25 deg.
C3_Witness ==
    /\ op = "commit"
    /\ dds.phase_deg_t_ = U32_MAX
    /\ get_phase(dds) = U32(23625)

\* C4: calculate_phase_register(p) = ((p div 1125) + (1 if 2*(p mod 1125) >
\* 1125 else 0)) mod 32, in [0, 31]; 1700 gives 2 and 35999 gives 0.
C4_PhaseRegisterFormula ==
    (codec_args.fn = "calculate_phase_register" /\ codec_result # <<>>) =>
        /\ codec_result = U32(SpecPhaseRegister(codec_args.phase))
        /\ codec_result[1] = 0 /\ codec_result[2] \in 0..31
        /\ codec_args.phase = U32(1700) => codec_result = U32(2)
        /\ codec_args.phase = U32(35999) => codec_result = U32(0)

\* calculate_phase_register(35999) has rounded up to 32 and wrapped to 0.
C4_Witness ==
    /\ codec_args = [fn |-> "calculate_phase_register", phase |-> U32(35999)]
    /\ codec_result = U32(0)

C5_Case == codec_args.fn = "calculate_frequency_register" /\ codec_result # <<>>

\* C5 as stated: for every 32-bit frequency_hz and every oscillator_hz > 0
\* the frequency register is floor(frequency_hz * 2^32 / oscillator_hz).
C5_Original ==
    C5_Case =>
        IsFloorOf(NatOfU32(codec_result), NatShl32(codec_args.frequency_hz),
                  NatOfU32(codec_args.osc_hz))

\* C5, amended: the 64-bit quotient is floor(frequency_hz * 2^32 /
\* oscillator_hz), computed without overflow, and the frequency register is
\* its low 32 bits; the register is that floor itself exactly when
\* frequency_hz < oscillator_hz.  For 125,000,000 Hz and 1,000 Hz it is 34,359.
C5_FrequencyRegisterLow32 ==
    C5_Case =>
        LET f == codec_args.frequency_hz
            o == codec_args.osc_hz
        IN  \E q \in {NatOfU64(frequency_reg_div(o, f))} :
            /\ IsFloorOf(q, NatShl32(f), NatOfU32(o))
            /\ NatOfU32(codec_result) = SubSeq(q, 1, 4)
            /\ IsFloorOf(NatOfU32(codec_result), NatShl32(f), NatOfU32(o))
                 <=> U32Lt(f, o)
            /\ (o = U32(125000000) /\ f = U32(1000)) => codec_result = U32(34359)

\* The register for 1 kHz from a 125 MHz oscillator has been computed.
C5_Witness ==
    /\ codec_args = [fn |-> "calculate_frequency_register",
                     osc_hz |-> U32(125000000), frequency_hz |-> U32(1000)]
    /\ codec_result = U32(34359)

\* The programming cycle of the most recent constructor or commit call: the
\* constructor makes six gpio_put calls before it.
Cycle == IF op = "AD9850" THEN SubSeq(gpio_log, 7, Len(gpio_log)) ELSE gpio_log

\* The value of the n data levels set before word-clock pulses k+1..k+n of the
\* cycle c, the first being the least significant bit.
RECURSIVE WordOf(_, _, _)
WordOf(c, k, n) ==
    IF n = 0 THEN 0 ELSE c[3 * k + 1].level + 2 * WordOf(c, k + 1, n - 1)

\* The level of the word clock just before call i of the most recent call's log.
WClkBefore(i) ==
    LET w == {j \in 1..(i - 1) : gpio_log[j].pin = W_CLK}
    IN  IF w = {} THEN gpio0[W_CLK]
        ELSE gpio_log[CHOOSE j \in w : \A m \in w : m <= j].level

\* C6: every programming cycle is 40 word-clock pulses, each preceded by one
\* write of the data line, then one frequency-update pulse; the data levels
\* are the 32 bits of the frequency register (least significant first), 0,
\* 0, the power bit (0 if enabled, else 1) and the 5 bits of the phase
\* register (least significant first); the data line is written only while
\* the word clock is low.
C6_ProgrammingCycle ==
    op \in {"AD9850", "commit"} =>
        /\ Len(Cycle) = 122
        /\ \A k \in 1..40 :
              /\ Cycle[3 * k - 2].pin = DATA
              /\ Cycle[3 * k - 2].level \in {0, 1}
              /\ Cycle[3 * k - 1] = [pin |-> W_CLK, level |-> 1]
              /\ Cycle[3 * k] = [pin |-> W_CLK, level |-> 0]
        /\ Cycle[121] = [pin |-> FQ_UD, level |-> 1]
        /\ Cycle[122] = [pin |-> FQ_UD, level |-> 0]
        /\ WordOf(Cycle, 0, 16) = dds.frequency_register_[2]
        /\ WordOf(Cycle, 16, 16) = dds.frequency_register_[1]
        /\ WordOf(Cycle, 32, 2) = 0
        /\ WordOf(Cycle, 34, 1) = (IF get_enabled(dds) THEN 0 ELSE 1)
        /\ WordOf(Cycle, 35, 5) = dds.phase_register_[2]
        /\ dds.phase_register_[1] = 0
        /\ \A i \in 1..Len(gpio_log) : gpio_log[i].pin = DATA => WClkBefore(i) = 0

\* A commit has sent the word for 1 kHz from 125 MHz (register 34359), phase
\* register 2, output enabled.
C6_Witness ==
    /\ op = "commit"
    /\ dds.frequency_register_ = U32(34359)
    /\ dds.phase_register_ = U32(2)
    /\ get_enabled(dds)
    /\ Len(gpio_log) = 122

\* C7: construction makes exactly these gpio_put calls: reset high, reset
\* low, word clock high, low, frequency update high, low, then one
\* programming cycle whose 32 frequency bits and 5 phase bits are 0 and whose
\* power bit is 1; after it get_frequency = 0, get_phase = 0 and get_enabled
\* = false.
C7_Construction ==
    op = "AD9850" =>
        /\ Len(gpio_log) = 128
        /\ SubSeq(gpio_log, 1, 6) =
              << [pin |-> RESET, level |-> 1], [pin |-> RESET, level |-> 0],
                 [pin |-> W_CLK, level |-> 1], [pin |-> W_CLK, level |-> 0],
                 [pin |-> FQ_UD, level |-> 1], [pin |-> FQ_UD, level |-> 0] >>
        /\ \A k \in 1..40 :
              /\ gpio_log[6 + 3 * k - 2] =
                    [pin |-> DATA, level |-> IF k = 35 THEN 1 ELSE 0]
              /\ gpio_log[6 + 3 * k - 1] = [pin |-> W_CLK, level |-> 1]
              /\ gpio_log[6 + 3 * k] = [pin |-> W_CLK, level |-> 0]
        /\ gpio_log[127] = [pin |-> FQ_UD, level |-> 1]
        /\ gpio_log[128] = [pin |-> FQ_UD, level |-> 0]
        /\ get_frequency(dds) = U32(0)
        /\ get_phase(dds) = U32(0)
        /\ get_enabled(dds) = FALSE

\* The driver has just been constructed: the reset line was pulsed and
\* every pin is low again.
C7_Witness ==
    /\ op = "AD9850"
    /\ gpio_log # <<>>
    /\ gpio_log[1] = [pin |-> RESET, level |-> 1]
    /\ \A p \in Pins \ {DATA} : gpio[p] = 0


(***************************************************************************)
(* C8: a Command that carries an error is never applied.  Whenever an      *)
(* iteration of the control loop dequeues a Command with error set, the    *)
(* driver's staged and current state and every GPIO line are as before, no *)
(* gpio_put call is made, the Command has left the queue, and the          *)
(* responses written are exactly one error response with the Command's     *)
(* command_number and message -- also when the Command has optional fields *)
(* populated.                                                              *)
(***************************************************************************)
Responses(out) == SelectSeq(out, LAMBDA x : x.kind \in {"ack", "error"})

ErrorDequeued ==
    /\ op = "main_loop"
    /\ has_value(command)
    /\ has_value(value(command).error)

C8_ErrorCommandNotApplied ==
    [][ ErrorDequeued' =>
          /\ dds' = dds
          /\ gpio' = gpio
          /\ gpio_log' = <<>>
          /\ requested' = requested
          /\ command_processor'.commands_ = <<>>
          /\ Responses(stdout') =
               << [ kind           |-> "error",
                    command_number |-> value(command').command_number,
                    error          |-> value(value(command').error) ] >>
      ]_vars

\* The line "n e F" was answered: command_number 1, enable_out populated
\* with true, the frequency of the wrong type; the output is still disabled.
C8_Witness ==
    /\ ErrorDequeued
    /\ lines = <<(<<110, 101, 70>>)>>
    /\ value(command).command_number = 1
    /\ value(command).enable_out = make_optional(TRUE)
    /\ value(value(command).error) = "Error parsing frequency."
    /\ ~get_enabled(dds)

(***************************************************************************)
(* C9: get_command returns the queued Commands in the order their lines    *)
(* were completed, each once and none lost.  In every state the Commands   *)
(* of all completed lines, in completion order, are the Commands returned  *)
(* so far followed by the Commands still queued; and command_is_available  *)
(* is true exactly when fewer Commands were returned than lines completed. *)
(***************************************************************************)
C9_FifoOrder ==
    /\ completed = returned \o command_processor.commands_
    /\ command_is_available(command_processor) <=> Len(returned) < Len(completed)
    /\ number_of_commands(command_processor) = Len(completed) - Len(returned)

\* Two Commands were returned, number 1 then number 2, while a third
\* completed line is still queued and a get_command has just returned.
C9_Witness ==
    /\ op = "get_command"
    /\ Len(returned) = 2
    /\ returned[1].command_number = 1
    /\ returned[2].command_number = 2
    /\ command = make_optional(returned[2])
    /\ Len(command_processor.commands_) = 1

(***************************************************************************)
(* C10: CR then LF is one terminator.  A CR received with a non-empty      *)
(* buffer completes exactly one line, enqueues exactly one Command and     *)
(* echoes exactly one newline; a tick without data does none of these; an  *)
(* LF that is the next character received after a CR, however many ticks   *)
(* without data lie between, echoes nothing, completes no line, enqueues   *)
(* nothing, leaves the buffer alone and schedules no prompt; and an LF     *)
(* whose preceding received character is not a CR (a second LF after CR LF *)
(* in particular) is processed as a terminator and echoed.                 *)
(***************************************************************************)

LoopRead(ch) == op' = "loop" /\ character' = ch

\* previous' is the character received last before the call that read
\* character'.
C10_CrLfCollapse ==
    [][ /\ (LoopRead(CR) /\ command_processor.command_buffer_index_ > 0) =>
              /\ Len(lines') = 1
              /\ Len(completed') = Len(completed) + 1
              /\ Len(command_processor'.commands_) = Len(command_processor.commands_) + 1
              /\ Echoes(stdout') = <<Echo(LF)>>
              /\ command_processor'.show_prompt_
        /\ LoopRead(PICO_ERROR_TIMEOUT) =>
              /\ lines' = <<>>
              /\ Echoes(stdout') = <<>>
              /\ command_processor'.commands_ = command_processor.commands_
              /\ command_processor'.command_buffer_ = command_processor.command_buffer_
        /\ (LoopRead(LF) /\ previous' = CR) =>
              /\ lines' = <<>>
              /\ completed' = completed
              /\ Echoes(stdout') = <<>>
              /\ command_processor'.commands_ = command_processor.commands_
              /\ command_processor'.command_buffer_ = command_processor.command_buffer_
              /\ command_processor'.command_buffer_index_ =
                     command_processor.command_buffer_index_
              /\ ~command_processor'.show_prompt_
        /\ (LoopRead(LF) /\ previous' # CR) =>
              /\ Echoes(stdout') = <<Echo(LF)>>
              /\ command_processor'.show_prompt_
              /\ Len(lines') = IF command_processor.command_buffer_index_ > 0 THEN 1 ELSE 0
      ]_vars

\* An LF was just skipped: the line "n" was completed by a CR, ticks
\* without data followed (the prompt is already out), then the LF came.
C10_Witness ==
    /\ op = "loop"
    /\ character = LF
    /\ previous = CR
    /\ Len(completed) = 1
    /\ completed[1].command_number = 1
    /\ stdout = <<>>
    /\ command_processor.commands_ = completed
    /\ ~command_processor.show_prompt_

\* A second LF after CR LF was processed as a terminator of its own.
C10_WitnessSecondLf ==
    /\ op = "loop"
    /\ character = LF
    /\ previous = LF
    /\ stdout = <<Echo(LF)>>
    /\ Len(completed) = 1
    /\ ~command_processor.crlf_


(***************************************************************************)
(* C11: the line buffer never holds more than N - 1 characters, and the    *)
(* line handed to the decoder is the truncated prefix of what was typed.   *)
(* In every state the write index is in 0..MAX_COMMAND_LEN and the byte at *)
(* the write index is 0; and whenever loop() hands a line to the decoder,  *)
(* the line is the first min(n, MAX_COMMAND_LEN) of the n printable        *)
(* characters received since the previous terminator (CR or LF), in order. *)
(***************************************************************************)
Prefix(seq, n) == SubSeq(seq, 1, IF Len(seq) < n THEN Len(seq) ELSE n)

C11_BufferBounded ==
    /\ command_processor.command_buffer_index_ \in 0..MAX_COMMAND_LEN
    /\ command_processor.command_buffer_[command_processor.command_buffer_index_ + 1] = NUL
    /\ Len(c_str(command_processor.command_buffer_)) =
           command_processor.command_buffer_index_

C11_LineIsTruncatedPrefix ==
    [][ /\ C11_BufferBounded'
        /\ lines' # <<>> => lines' = <<Prefix(typed, MAX_COMMAND_LEN)>>
      ]_vars


(***************************************************************************)
(* Claims about the decoder.  A line is read off its symbols here, not     *)
(* through json_create and json_getProperty.                               *)
(***************************************************************************)
\* The line is the text of a JSON object.
IsJsonObject(line) == \A i \in 1..Len(line) : line[i] # 128

\* The symbols of the members with each name.
NumberSymbols == {110, 109, 77, 78}
FrequencySymbols == {102, 70}
PhaseSymbols == {112, 80}
EnableSymbols == {101, 69}

\* The symbol of the first member of the line with a name, 0 if none.
Member(line, symbols) ==
    LET at == {i \in 1..Len(line) : line[i] \in symbols}
    IN  IF at = {} THEN 0 ELSE line[CHOOSE i \in at : \A j \in at : i <= j]

\* The line's command_number is present and an integer.
HasIntegerNumber(line) == Member(line, NumberSymbols) \in {110, 109, 77}

DecodeDone == codec_args.fn = "parse_json_command_buffer" /\ codec_result # <<>>

(***************************************************************************)
(* C12: a line that is a JSON object whose command_number is absent or not *)
(* an integer decodes to a Command with error set and command_number 0,    *)
(* whatever its other members are.                                         *)
(***************************************************************************)
C12_NumberRequired ==
    (/\ DecodeDone
     /\ IsJsonObject(codec_args.line)
     /\ ~HasIntegerNumber(codec_args.line)) =>
        /\ has_value(codec_result[1].error)
        /\ codec_result[1].command_number = 0

\* The line "e N f" has been decoded: correctly typed enable_out and
\* frequency members, the command_number a text.
C12_Witness ==
    /\ DecodeDone
    /\ codec_args.line = <<101, 78, 102>>
    /\ codec_result[1].error = make_optional("Error parsing command number")
    /\ codec_result[1].command_number = 0

\* The line "f p e", without command_number, has been decoded.
C12_WitnessAbsent ==
    /\ DecodeDone
    /\ codec_args.line = <<102, 112, 101>>
    /\ has_value(codec_result[1].error)


(***************************************************************************)
(* Claims about the control loop                                           *)
(***************************************************************************)
\* The most recent iteration dequeued a command without error, applied it
\* and acknowledged it.
CommandApplied ==
    /\ op = "main_loop"
    /\ has_value(command)
    /\ ~has_value(value(command).error)

(***************************************************************************)
(* C13: when the control loop applies an error-free Command, the current   *)
(* frequency, the reported phase and the enabled flag of the driver are    *)
(* each the same after the commit as before the Command was applied, for   *)
(* every one of them whose field the Command does not have.                *)
(***************************************************************************)
C13_AbsentFieldsKept ==
    [][ CommandApplied' =>
          /\ ~has_value(value(command').frequency_hz) =>
                 get_frequency(dds') = get_frequency(dds)
          /\ ~has_value(value(command').phase_deg) =>
                 get_phase(dds') = get_phase(dds)
          /\ ~has_value(value(command').enable_out) =>
                 get_enabled(dds') = get_enabled(dds)
      ]_vars

\* The line "n p" was applied after earlier lines had set the frequency to
\* 10 MHz and enabled the output: both are still in place, the phase is new.
C13_Witness ==
    /\ CommandApplied
    /\ lines = <<(<<110, 112>>)>>
    /\ ~has_value(value(command).frequency_hz)
    /\ ~has_value(value(command).enable_out)
    /\ get_frequency(dds) = U32(10000000)
    /\ get_enabled(dds)
    /\ get_phase(dds) = U32(2250)


(***************************************************************************)
(* Claims about the line assembler                                         *)
(***************************************************************************)
\* A character other than CR, LF and the printable range 32..128.
IsOther(ch) ==
    /\ ch # PICO_ERROR_TIMEOUT
    /\ ch # CR
    /\ ch # LF
    /\ ~IsPrintable(ch)

(***************************************************************************)
(* C14: a received character that is not CR, not LF and not in 32..128 is  *)
(* ignored: the call of loop() that reads it leaves the line buffer and    *)
(* the command queue as they were, echoes nothing, completes no line and   *)
(* schedules no prompt.                                                    *)
(***************************************************************************)
C14_OtherCharacterIgnored ==
    [][ (op' = "loop" /\ IsOther(character')) =>
          /\ command_processor'.command_buffer_ =
                 command_processor.command_buffer_
          /\ command_processor'.command_buffer_index_ =
                 command_processor.command_buffer_index_
          /\ command_processor'.commands_ = command_processor.commands_
          /\ Echoes(stdout') = <<>>
          /\ lines' = <<>>
          /\ ~command_processor'.show_prompt_
      ]_vars


\* The call of loop() that read character' stored it in the line buffer.
Appended ==
    /\ command_processor'.command_buffer_index_ =
           command_processor.command_buffer_index_ + 1
    /\ command_processor'.command_buffer_[
           command_processor'.command_buffer_index_] = character'

\* character' is a CR, or an LF that does not directly follow a CR.
ProcessedTerminator ==
    \/ character' = CR
    \/ character' = LF /\ previous' # CR

\* character' is printable and arrived with the line buffer full.
Dropped ==
    /\ IsPrintable(character')
    /\ command_processor.command_buffer_index_ >= MAX_COMMAND_LEN

(***************************************************************************)
(* C16: a received character is echoed if and only if it is appended to    *)
(* the line buffer or is a processed logical terminator (a CR, or an LF    *)
(* not collapsed into a preceding CR).  An appended character is echoed as *)
(* itself, a processed terminator exactly once as a newline, a character   *)
(* dropped because the buffer is full is not echoed, and the characters    *)
(* echoed since the previous newline echo are exactly the contents of the  *)
(* line buffer when a terminator is processed.                             *)
(***************************************************************************)
C16_EchoIffAppendedOrTerminator ==
    [][ (op' = "loop" /\ character' # PICO_ERROR_TIMEOUT) =>
          /\ Echoes(stdout') # <<>> <=> (Appended \/ ProcessedTerminator)
          /\ Appended => Echoes(stdout') = <<Echo(character')>>
          /\ ProcessedTerminator =>
                 /\ Echoes(stdout') = <<Echo(LF)>>
                 /\ echoed = c_str(command_processor.command_buffer_)
          /\ Dropped => ~Appended /\ Echoes(stdout') = <<>>
      ]_vars


Prompts(out) == SelectSeq(out, LAMBDA x : x.kind = "prompt")

(***************************************************************************)
(* C19: the prompt is printed exactly once by the call of loop() that      *)
(* follows a processed logical terminator, as the first output of that     *)
(* call, hence after the response to the line the terminator completed and *)
(* before any later character is read or echoed; no other call of loop()   *)
(* prints a prompt: none before the first terminator, none after an LF     *)
(* collapsed into a CR.                                                    *)
(***************************************************************************)
C19_PromptAfterTerminator ==
    [][ op' = "main_loop" =>
          /\ Prompts(stdout') = IF terminated THEN <<Prompt>> ELSE <<>>
          /\ terminated => stdout'[1] = Prompt
          /\ (terminated /\ lines # <<>>) =>
                 /\ Len(Responses(stdout)) = 1
                 /\ stdout[Len(stdout)].kind \in {"ack", "error"}
      ]_vars


\* The response main writes for the command cmd when the driver is d after
\* the iteration.
ResponseTo(cmd, d) ==
    IF has_value(cmd.error) THEN show_error(cmd)
    ELSE ack_command(cmd.command_number, d)

(***************************************************************************)
(* C15: under the control loop completed non-empty lines and responses     *)
(* correspond one to one, in order.  A CR or LF received with a non-empty  *)
(* line buffer completes the buffered line.  An iteration that completes a *)
(* line dequeues the Command decoded from it and writes exactly one        *)
(* response, the one to that Command (an error response if it has an       *)
(* error, an acknowledgement otherwise), before the next character is      *)
(* read.  An iteration that completes no line, one that receives a         *)
(* terminator with an empty buffer in particular, dequeues no Command and  *)
(* writes no response.  No Command is ever left queued, whatever the lines *)
(* before were.                                                            *)
(***************************************************************************)
C15_OneResponsePerLine ==
    [][ op' = "main_loop" =>
          /\ character' \in {CR, LF} =>
                 lines' = IF command_processor.command_buffer_index_ > 0
                          THEN <<c_str(command_processor.command_buffer_)>>
                          ELSE <<>>
          /\ Len(lines') <= 1
          /\ lines' # <<>> =>
                 /\ command' = make_optional(Decoded(lines'[1]))
                 /\ Responses(stdout') = ResponseTo(Decoded(lines'[1]), dds')
          /\ lines' = <<>> =>
                 /\ command' = nullopt
                 /\ Responses(stdout') = <<>>
          /\ command_processor'.commands_ = <<>>
      ]_vars

\* The malformed line "F" was completed after an earlier line had set the
\* frequency to 10 MHz: it is answered with an error response.
C15_Witness ==
    /\ op = "main_loop"
    /\ character \in {CR, LF}
    /\ lines = <<(<<70>>)>>
    /\ get_frequency(dds) = U32(10000000)
    /\ Len(Responses(stdout)) = 1
    /\ Responses(stdout)[1].kind = "error"

\* The line "n f" was completed: it is answered with an acknowledgement.
C15_WitnessAck ==
    /\ op = "main_loop"
    /\ character \in {CR, LF}
    /\ lines = <<(<<110, 102>>)>>
    /\ Len(Responses(stdout)) = 1
    /\ Responses(stdout)[1].kind = "ack"


\* The int64_t with the value of the int n.
I64OfInt(n) ==
    IF n >= 0 THEN <<0, 0, n \div B16, n % B16>>
    ELSE <<B16 - 1, B16 - 1, (n \div B16) + B16, n % B16>>

\* The command_number of the line: the value of its first command_number
\* member if the line is a JSON object and that member is an integer, and
\* 0 otherwise.
LineCommandNumber(line) ==
    IF IsJsonObject(line) /\ HasIntegerNumber(line)
    THEN JsonMembers[Member(line, NumberSymbols)].val
    ELSE I64OfInt(0)

\* The command_number that main's response to the command cmd carries.
ResponseNumber(cmd) ==
    IF has_value(cmd.error) THEN show_error(cmd)[1].command_number
    ELSE cmd.command_number

(***************************************************************************)
(* C17: the response to a line, acknowledgement or error, carries the      *)
(* command_number of the line when that is present and an integer, the     *)
(* error response for a wrongly typed optional field included; it carries  *)
(* 0 only when the line is not a JSON object or has no integer             *)
(* command_number (or when the line's command_number is 0).                *)
(***************************************************************************)
C17_ResponseCarriesNumber ==
    DecodeDone =>
        /\ I64OfInt(ResponseNumber(codec_result[1])) =
               LineCommandNumber(codec_args.line)
        /\ (/\ IsJsonObject(codec_args.line)
            /\ HasIntegerNumber(codec_args.line)
            /\ LineCommandNumber(codec_args.line) # I64OfInt(0)) =>
               ResponseNumber(codec_result[1]) # 0


\* The first member of the line with the name is of the wrong JSON type.
WrongFrequency(line) == Member(line, FrequencySymbols) = 70
WrongPhase(line) == Member(line, PhaseSymbols) = 80
WrongEnable(line) == Member(line, EnableSymbols) = 69

\* A line has been decoded that is a JSON object with an integer
\* command_number: the decoder went on to the optional fields.
OptionalFieldsChecked ==
    /\ DecodeDone
    /\ IsJsonObject(codec_args.line)
    /\ HasIntegerNumber(codec_args.line)

(***************************************************************************)
(* C18, as claimed: the decoder checks the optional fields in the order    *)
(* frequency, phase, enable_out: the error of the Command names the first  *)
(* wrongly typed field in that order, and no field after it is examined.   *)
(***************************************************************************)
C18_FrequencyPhaseEnable ==
    OptionalFieldsChecked =>
        LET line == codec_args.line
            cmd == codec_result[1]
        IN  /\ cmd.error =
                 IF WrongFrequency(line) THEN make_optional("Error parsing frequency.")
                 ELSE IF WrongPhase(line) THEN make_optional("Error parsing phase")
                 ELSE IF WrongEnable(line) THEN make_optional("Error parsing enable flag.")
                 ELSE nullopt
            /\ WrongFrequency(line) =>
                 ~has_value(cmd.phase_deg) /\ ~has_value(cmd.enable_out)
            /\ (~WrongFrequency(line) /\ WrongPhase(line)) =>
                 ~has_value(cmd.enable_out)

(***************************************************************************)
(* C18, amended: the decoder checks the optional fields in the order       *)
(* enable_out, frequency, phase and returns at the first one that is       *)
(* present with the wrong JSON type: the error of the Command names the    *)
(* first wrongly typed field in that order, and no field after it is       *)
(* examined (none is populated).                                           *)
(***************************************************************************)
C18_EnableFrequencyPhase ==
    OptionalFieldsChecked =>
        LET line == codec_args.line
            cmd == codec_result[1]
        IN  /\ cmd.error =
                 IF WrongEnable(line) THEN make_optional("Error parsing enable flag.")
                 ELSE IF WrongFrequency(line) THEN make_optional("Error parsing frequency.")
                 ELSE IF WrongPhase(line) THEN make_optional("Error parsing phase")
                 ELSE nullopt
            /\ WrongEnable(line) =>
                 ~has_value(cmd.frequency_hz) /\ ~has_value(cmd.phase_deg)
            /\ (~WrongEnable(line) /\ WrongFrequency(line)) =>
                 ~has_value(cmd.phase_deg)

\* The line "n p F E" has been decoded: frequency and enable_out are both
\* wrongly typed, the phase is well typed; the error names enable_out and
\* neither frequency nor phase is populated.
C18_Witness ==
    /\ OptionalFieldsChecked
    /\ codec_args.line = <<110, 112, 70, 69>>
    /\ codec_result[1].error = make_optional("Error parsing enable flag.")
    /\ ~has_value(codec_result[1].frequency_hz)
    /\ ~has_value(codec_result[1].phase_deg)


Acks(out) == SelectSeq(out, LAMBDA x : x.kind = "ack")

\* The gpio_put calls c are one complete programming cycle: 40 word-clock
\* pulses, each after one write of the data line, then the frequency-update
\* pulse.
CompleteCycle(c) ==
    /\ Len(c) = 122
    /\ \A k \in 1..40 :
          /\ c[3 * k - 2].pin = DATA
          /\ c[3 * k - 1] = [pin |-> W_CLK, level |-> 1]
          /\ c[3 * k] = [pin |-> W_CLK, level |-> 0]
    /\ c[121] = [pin |-> FQ_UD, level |-> 1]
    /\ c[122] = [pin |-> FQ_UD, level |-> 0]

(***************************************************************************)
(* C20: under the control loop an iteration writes at most one             *)
(* acknowledgement, and when it writes one it has dequeued an error-free   *)
(* Command and made, after that, the gpio_put calls of exactly one         *)
(* complete programming cycle, whether or not the Command has an optional  *)
(* field.  The cycle sends the registers of the driver's current state,    *)
(* and the acknowledgement carries that state: the frequency and the       *)
(* enable flag requested last, and the reported phase.                     *)
(***************************************************************************)
C20_AckAfterOneCycle ==
    (op = "main_loop" /\ Acks(stdout) # <<>>) =>
        /\ Len(Acks(stdout)) = 1
        /\ has_value(command)
        /\ ~has_value(value(command).error)
        /\ CompleteCycle(gpio_log)
        /\ WordOf(gpio_log, 0, 16) = dds.frequency_register_[2]
        /\ WordOf(gpio_log, 16, 16) = dds.frequency_register_[1]
        /\ WordOf(gpio_log, 34, 1) = (IF get_enabled(dds) THEN 0 ELSE 1)
        /\ WordOf(gpio_log, 35, 5) = dds.phase_register_[2]
        /\ Acks(stdout)[1] =
               [ kind           |-> "ack",
                 command_number |-> value(command).command_number,
                 frequency      |-> requested.frequency,
                 phase          |-> get_phase(dds),
                 enable_out     |-> requested.enable ]
        /\ get_frequency(dds) = requested.frequency
        /\ get_enabled(dds) = requested.enable

\* The line "n", a Command without optional fields, was acknowledged after
\* earlier lines had set 10 MHz and enabled the output: a programming cycle
\* was performed all the same.
C20_Witness ==
    /\ op = "main_loop"
    /\ lines = <<(<<110>>)>>
    /\ Len(Acks(stdout)) = 1
    /\ Acks(stdout)[1].frequency = U32(10000000)
    /\ Acks(stdout)[1].enable_out
    /\ Len(gpio_log) = 122


(***************************************************************************)
(* C21: under the control loop the command queue is empty at the start of  *)
(* every call of loop(); the call, reading at most one character, leaves   *)
(* at most one Command in it, and that Command is the one the same         *)
(* iteration dequeues, so the queue is empty again when the iteration      *)
(* ends.                                                                   *)
(***************************************************************************)
C21_QueueAtMostOne ==
    [][ op' = "main_loop" =>
          \E r \in {loop(command_processor, character')} :
              /\ number_of_commands(command_processor) = 0
              /\ number_of_commands(r.obj) <= 1
              /\ number_of_commands(r.obj) = Len(lines')
              /\ number_of_commands(r.obj) = 1 =>
                     command' = make_optional(r.obj.commands_[1])
              /\ number_of_commands(r.obj) = 0 => command' = nullopt
              /\ number_of_commands(command_processor') = 0
      ]_vars

\* The iteration that completed the line "n e" has enqueued its Command and
\* dequeued it: the queue is empty.
C21_Witness ==
    /\ op = "main_loop"
    /\ lines = <<(<<110, 101>>)>>
    /\ has_value(command)
    /\ value(command).enable_out = make_optional(TRUE)
    /\ number_of_commands(command_processor) = 0


(***************************************************************************)
(* Claims about the control lines                                          *)
(***************************************************************************)
\* The gpio_put calls of the most recent call that drive the pin to level.
Driven(pin, level) ==
    {i \in 1..Len(gpio_log) : gpio_log[i] = [pin |-> pin, level |-> level]}

(***************************************************************************)
(* C22: the reset line is driven high exactly once by the constructor and  *)
(* is written by no setter and no commit (the setters write no pin at      *)
(* all); between calls, that is whenever no constructor or commit is       *)
(* executing, the reset, word-clock and frequency-update lines are low.    *)
(***************************************************************************)
C22_ResetOnceLinesLow ==
    /\ op = "AD9850" => Cardinality(Driven(RESET, GPIO_HI)) = 1
    /\ op # "AD9850" => \A i \in 1..Len(gpio_log) : gpio_log[i].pin # RESET
    /\ op \in {"set_frequency", "set_phase", "enable_out"} => gpio_log = <<>>
    /\ gpio[RESET] = GPIO_LO
    /\ gpio[W_CLK] = GPIO_LO
    /\ gpio[FQ_UD] = GPIO_LO

\* A commit has just programmed a phase register with its top bit set: the
\* data line is left high, the three control lines are low, and the word
\* clock and the frequency-update line were pulsed by this commit.
C22_Witness ==
    /\ op = "commit"
    /\ gpio[DATA] = GPIO_HI
    /\ gpio[RESET] = GPIO_LO /\ gpio[W_CLK] = GPIO_LO /\ gpio[FQ_UD] = GPIO_LO
    /\ Cardinality(Driven(W_CLK, GPIO_HI)) = 40
    /\ Cardinality(Driven(FQ_UD, GPIO_HI)) = 1
    /\ Driven(RESET, GPIO_HI) = {}

=============================================================================
